---- MODULE Spec2Model ----
(***************************************************************************)
(* Model of the personal finance tracker (src/main.py): the CSV-backed     *)
(* transaction store (class CSV), the date-range query with its summary,   *)
(* the daily series built for the plot, and the menu handlers of main().   *)
(*                                                                         *)
(* The backing file is modelled as the sequence of its CSV records, each   *)
(* record being the sequence of its fields as text.  A pandas DataFrame is *)
(* modelled as its column names plus its rows; a cell is kept in the text  *)
(* form pandas writes for it, a float64 cell by its repr ("40.0"), and the *)
(* missing value by NaN.  pandas is taken with the behaviour of its 2.x    *)
(* releases and its default arguments.                                     *)
(*                                                                         *)
(* An exception that no handler catches ends main(); it is recorded in     *)
(* `report`, the file stays as it was, and the steps that follow are those *)
(* of the program started again.                                           *)
(***************************************************************************)
EXTENDS Integers, Sequences, FiniteSets, TLC

VARIABLES
    file,       \* finance_data.csv: [exists, lines]
    op,         \* the last operation carried out, with its arguments
    report,     \* what the last operation printed or raised
    result,     \* the DataFrame returned by the last get_transactions
    summary,    \* the totals computed by the last get_transactions
    series,     \* the daily series handed to pyplot by the last plot
    appended,   \* history: the entries added so far while nothing else wrote
    netAppends  \* history: add_entry calls minus successful deletions

vars == <<file, op, report, result, summary, series, appended, netAppends>>

-----------------------------------------------------------------------------
(* Bounds of the model *)

\* most data rows the menu-level specification lets the file grow to
MaxRows == 3
\* most records (header included) the store-level specification lets the file hold
MaxLines == 3
\* most rows of a table drawn for the query specification
MaxTable == 3

-----------------------------------------------------------------------------
(* Program constants *)

COLUMNS == <<"date", "amount", "category", "description">>

\* the messages the operations print, and the exceptions they let escape
ADDED == "Entry added successfully"
UPDATED == "Entry updated successfully"
INVALID_UPDATE == "Invalid index. No entry updated."
NO_DATA == "No data available to delete."
DELETED == "Entry deleted successfully"
INVALID_DELETE == "Invalid index. No entry deleted."
NOT_FOUND == "No transaction found in the given date range."
FOUND == "Transaction from"
FILE_NOT_FOUND == "FileNotFoundError"
KEY_ERROR == "KeyError"

Faults == {FILE_NOT_FOUND, KEY_ERROR}

-----------------------------------------------------------------------------
(* Input domains *)

\* dates as get_date supplies them: text in the form of FORMAT
DateTexts == {"30-01-2024", "31-01-2024", "01-02-2024", "02-02-2024"}
MenuDates == {"31-01-2024", "01-02-2024"}
MenuCategories == {"Income", "Expense"}
Categories == MenuCategories \cup {"Transfer"}
Descriptions == {"", "rent"}
\* what the prompts of one add() or update() supply together
MenuEntries ==
    {<<"31-01-2024", 40, "Income", "">>,
     <<"31-01-2024", 40, "Income", "rent">>,
     <<"01-02-2024", 100, "Expense", "rent">>,
     <<"31-01-2024", 100, "Expense", "">>}
Indexes(n) == -1 .. n

-----------------------------------------------------------------------------
(* Dates: datetime.strptime / strftime with FORMAT = "%d-%m-%Y" *)

IsLeap(y) == (y % 4 = 0) /\ ((y % 100 # 0) \/ (y % 400 = 0))

DaysInMonth(y, m) ==
    IF m = 2 THEN (IF IsLeap(y) THEN 29 ELSE 28)
    ELSE IF m \in {4, 6, 9, 11} THEN 30 ELSE 31

RECURSIVE DaysBeforeMonth(_, _)
DaysBeforeMonth(y, m) ==
    IF m = 1 THEN 0 ELSE DaysBeforeMonth(y, m - 1) + DaysInMonth(y, m - 1)

\* the calendar days the model's date texts can denote
Calendar ==
    {d \in [year : {2023, 2024}, month : 1 .. 12, day : 1 .. 31] :
        d.day <= DaysInMonth(d.year, d.month)}

Pad2(n) == IF n < 10 THEN "0" \o ToString(n) ELSE ToString(n)

\* datetime.strftime(FORMAT): zero-padded day, month, then the year
strftime(d) == Pad2(d.day) \o "-" \o Pad2(d.month) \o "-" \o ToString(d.year)

ParsedDates == [s \in DateTexts |-> CHOOSE d \in Calendar : strftime(d) = s]

\* datetime.strptime(text, FORMAT)
strptime(s) == ParsedDates[s]

\* the proleptic Gregorian ordinal: datetimes compare as their ordinals do
toordinal(d) ==
    LET y == d.year - 1
    IN  365 * y + (y \div 4) - (y \div 100) + (y \div 400)
          + DaysBeforeMonth(d.year, d.month) + d.day

\* pandas' NaT: what to_datetime makes of a missing date; it compares False
NaT == [year |-> 0, month |-> 0, day |-> 0]

-----------------------------------------------------------------------------
(* Numbers: the amounts are floats with a whole value *)

\* repr of a float, as csv.writer and DataFrame.to_csv write it
str(a) == ToString(a) \o ".0"

AmountTexts == [t \in {str(a) : a \in 0 .. 100} |-> CHOOSE a \in 0 .. 100 : str(a) = t]

\* the missing value of pandas
NaN == "NaN"

\* the float a cell of a float64 column holds
float(t) == AmountTexts[t]

-----------------------------------------------------------------------------
(* The backing file and pandas' view of it *)

NoFile == [exists |-> FALSE, lines |-> <<>>]

FileOf(lines) == [exists |-> TRUE, lines |-> lines]

DataFrame(columns, rows) == [columns |-> columns, rows |-> rows]

NoFrame == DataFrame(<<>>, <<>>)

\* texts read_csv takes for a missing value (its default na_values, in part)
NA_VALUES == {"", "NaN", "NA", "N/A", "NULL", "None", "nan", "null", "n/a"}

\* the first record names the columns; an empty name becomes "Unnamed: k"
HeaderNames(record) ==
    [k \in 1 .. Len(record) |->
        IF record[k] = "" THEN "Unnamed: " \o ToString(k - 1) ELSE record[k]]

\* one data record as a row of `width` cells: short records are padded with
\* NaN, and a field that is one of NA_VALUES is read as NaN
ParseRecord(record, width) ==
    [k \in 1 .. width |->
        IF k > Len(record) \/ record[k] \in NA_VALUES THEN NaN ELSE record[k]]

\* pd.read_csv(CSV_FILE) of a file that exists
read_csv(f) ==
    LET columns == HeaderNames(f.lines[1])
    IN  DataFrame(columns,
                  [i \in 1 .. Len(f.lines) - 1 |->
                      ParseRecord(f.lines[i + 1], Len(columns))])

\* df.to_csv(CSV_FILE, index=False): the header, then each row, NaN as ""
to_csv(df) ==
    FileOf(<<df.columns>> \o
           [i \in 1 .. Len(df.rows) |->
               [k \in 1 .. Len(df.columns) |->
                   IF df.rows[i][k] = NaN THEN "" ELSE df.rows[i][k]]])

HasColumn(df, name) == \E k \in 1 .. Len(df.columns) : df.columns[k] = name

ColumnOf(df, name) == CHOOSE k \in 1 .. Len(df.columns) : df.columns[k] = name

\* len(df)
len(df) == Len(df.rows)

\* df.at[index, name] = value; a name that is no column yet adds the column,
\* NaN in every other row (the setter falls back to df.loc enlargement)
at_set(df, index, name, value) ==
    LET wide == IF HasColumn(df, name) THEN df
                ELSE DataFrame(Append(df.columns, name),
                               [i \in 1 .. Len(df.rows) |-> Append(df.rows[i], NaN)])
    IN  DataFrame(wide.columns,
                  [wide.rows EXCEPT ![index + 1][ColumnOf(wide, name)] = value])

\* drop_reset dropping the row after the one asked for
drop_reset_next(df, index) ==
    DataFrame(df.columns,
              [i \in 1 .. Len(df.rows) - 1 |->
                  IF i <= index + 1 THEN df.rows[i] ELSE df.rows[i + 1]])

\* df.drop(index).reset_index(drop=True): the row labelled index goes, the
\* rows after it move up and are labelled 0 .. n-2 again
drop_reset(df, index) ==
    DataFrame(df.columns,
              [i \in 1 .. Len(df.rows) - 1 |->
                  IF i < index + 1 THEN df.rows[i] ELSE df.rows[i + 1]])

-----------------------------------------------------------------------------
(* class CSV *)

\* initialize_csv writing the header whether or not the file exists
initialize_csv_overwrite(f) == to_csv(DataFrame(COLUMNS, <<>>))

\* CSV.initialize_csv: the file after the call
initialize_csv(f) ==
    IF f.exists THEN f ELSE to_csv(DataFrame(COLUMNS, <<>>))

\* CSV.add_entry: the file after the call; open(..., "a") creates the file
add_entry(f, date, amount, category, description) ==
    FileOf(Append(f.lines, <<date, str(amount), category, description>>))

\* CSV.update_entry: the file after the call and what was reported
update_entry(f, index, date, amount, category, description) ==
    IF ~f.exists THEN [file |-> f, report |-> FILE_NOT_FOUND]
    ELSE LET df == read_csv(f)
         IN  IF 0 <= index /\ index < len(df)
             THEN LET d1 == at_set(df, index, "date", date)
                      d2 == at_set(d1, index, "amount", str(amount))
                      d3 == at_set(d2, index, "category", category)
                      d4 == at_set(d3, index, "description", description)
                  IN  [file |-> to_csv(d4), report |-> UPDATED]
             ELSE [file |-> f, report |-> INVALID_UPDATE]

\* delete_entry without the test 0 <= index
delete_entry_no_lower_bound(f, index) ==
    IF ~f.exists THEN [file |-> f, report |-> NO_DATA]
    ELSE LET df == read_csv(f)
         IN  IF len(df) = 0 THEN [file |-> f, report |-> NO_DATA]
             ELSE IF index < len(df)
                  THEN [file |-> to_csv(drop_reset(df, index)), report |-> DELETED]
                  ELSE [file |-> f, report |-> INVALID_DELETE]

\* CSV.delete_entry: the file after the call and what was reported
delete_entry(f, index) ==
    IF ~f.exists THEN [file |-> f, report |-> NO_DATA]
    ELSE LET df == read_csv(f)
         IN  IF len(df) = 0 THEN [file |-> f, report |-> NO_DATA]
             ELSE IF 0 <= index /\ index < len(df)
                  THEN [file |-> to_csv(drop_reset(df, index)), report |-> DELETED]
                  ELSE [file |-> f, report |-> INVALID_DELETE]

NoSummary ==
    [computed |-> FALSE, total_income |-> 0, total_expense |-> 0, net_saving |-> 0]

\* Series.sum() of the amount cells of rows: NaN is skipped, no row gives 0
RECURSIVE SumAmounts(_, _)
SumAmounts(rows, k) ==
    IF rows = <<>> THEN 0
    ELSE (IF Head(rows)[k] = NaN THEN 0 ELSE float(Head(rows)[k]))
           + SumAmounts(Tail(rows), k)

\* category_total summing the amounts of every row
category_total_any(df, category) == SumAmounts(df.rows, ColumnOf(df, "amount"))

\* filtered_df[filtered_df["category"] == category]["amount"].sum()
category_total(df, category) ==
    LET c == ColumnOf(df, "category")
    IN  SumAmounts(SelectSeq(df.rows, LAMBDA r : r[c] = category),
                   ColumnOf(df, "amount"))

\* pd.to_datetime(df["date"], format=FORMAT): the date cells become datetimes
to_datetime(df) ==
    LET c == ColumnOf(df, "date")
    IN  DataFrame(df.columns,
                  [i \in 1 .. Len(df.rows) |->
                      [df.rows[i] EXCEPT
                          ![c] = IF df.rows[i][c] = NaN THEN NaT
                                 ELSE strptime(df.rows[i][c])]])

\* in_range with the end date left out
in_range_exclusive_end(d, start, end) ==
    /\ d # NaT
    /\ toordinal(d) >= toordinal(start)
    /\ toordinal(d) < toordinal(end)

\* (df["date"] >= start_date) & (df["date"] <= end_date), for one datetime
in_range(d, start, end) ==
    /\ d # NaT
    /\ toordinal(d) >= toordinal(start)
    /\ toordinal(d) <= toordinal(end)

\* CSV.get_transactions: what was reported, the frame returned, the totals
get_transactions(f, start_date, end_date) ==
    IF ~f.exists
    THEN [report |-> FILE_NOT_FOUND, df |-> NoFrame, summary |-> NoSummary]
    ELSE
    LET raw == read_csv(f)
    IN  IF ~HasColumn(raw, "date")
        THEN [report |-> KEY_ERROR, df |-> NoFrame, summary |-> NoSummary]
        ELSE
        LET df == to_datetime(raw)
            c == ColumnOf(df, "date")
            start == strptime(start_date)
            end == strptime(end_date)
            filtered_df ==
                DataFrame(df.columns,
                          SelectSeq(df.rows, LAMBDA r : in_range(r[c], start, end)))
        IN  IF len(filtered_df) = 0
            THEN [report |-> NOT_FOUND, df |-> filtered_df, summary |-> NoSummary]
            ELSE LET total_income == category_total(filtered_df, "Income")
                     total_expense == category_total(filtered_df, "Expense")
                 IN  [report |-> FOUND, df |-> filtered_df,
                      summary |-> [computed |-> TRUE,
                                   total_income |-> total_income,
                                   total_expense |-> total_expense,
                                   net_saving |-> total_income - total_expense]]

-----------------------------------------------------------------------------
(* plot_transaction *)

NoSeries == [dates |-> <<>>, income |-> <<>>, expense |-> <<>>]

Ordinals(rows, c) == {toordinal(rows[i][c]) : i \in 1 .. Len(rows)}

Least(S) == CHOOSE x \in S : \A y \in S : x <= y
Greatest(S) == CHOOSE x \in S : \A y \in S : x >= y

\* resample_sum keeping the first amount of each day instead of the total
resample_first(rows, c, a) ==
    IF rows = <<>> THEN [o \in {} |-> 0]
    ELSE [o \in Least(Ordinals(rows, c)) .. Greatest(Ordinals(rows, c)) |->
             LET day == SelectSeq(rows, LAMBDA r : toordinal(r[c]) = o)
             IN  IF day = <<>> THEN 0 ELSE float(Head(day)[a])]

\* rows.resample("D").sum()["amount"] with the date as index: one total for
\* every day from the first to the last day of rows, 0 for a day with no row
resample_sum(rows, c, a) ==
    IF rows = <<>> THEN [o \in {} |-> 0]
    ELSE [o \in Least(Ordinals(rows, c)) .. Greatest(Ordinals(rows, c)) |->
             SumAmounts(SelectSeq(rows, LAMBDA r : toordinal(r[c]) = o), a)]

\* daily.reindex(index, fill_value=fill_value): one value per entry of index
reindex(daily, index, fill_value) ==
    [i \in 1 .. Len(index) |->
        IF toordinal(index[i]) \in DOMAIN daily
        THEN daily[toordinal(index[i])] ELSE fill_value]

\* the amounts plotted for one category, df.index being the date of each row
category_series(df, category) ==
    LET c == ColumnOf(df, "date")
        index == [i \in 1 .. Len(df.rows) |-> df.rows[i][c]]
        rows == SelectSeq(df.rows, LAMBDA r : r[ColumnOf(df, "category")] = category)
    IN  reindex(resample_sum(rows, c, ColumnOf(df, "amount")), index, 0)

\* plot_transaction: the x values and the two lines handed to pyplot
plot_transaction(df) ==
    LET c == ColumnOf(df, "date")
    IN  [dates |-> [i \in 1 .. Len(df.rows) |-> df.rows[i][c]],
         income |-> category_series(df, "Income"),
         expense |-> category_series(df, "Expense")]

-----------------------------------------------------------------------------
(* Steps shared by the specifications *)

\* the number of data records of the file, 0 when there is none
DataRows(f) == IF f.exists /\ Len(f.lines) > 0 THEN Len(f.lines) - 1 ELSE 0

NoAppends == [valid |-> FALSE, entries |-> <<>>]

\* the locals of the last query are gone once another handler runs
Forget ==
    /\ result' = NoFrame
    /\ summary' = NoSummary
    /\ series' = NoSeries

\* history kept by a call of add_entry
NoteAppend(date, amount, category, description) ==
    /\ appended' = IF appended.valid
                   THEN [appended EXCEPT
                           !.entries = Append(@, <<date, amount, category, description>>)]
                   ELSE appended
    /\ netAppends' = netAppends + 1

\* history kept by a call of update_entry or delete_entry that reported r
NoteRewrite(r) ==
    /\ appended' = IF r \in {UPDATED, DELETED} THEN NoAppends ELSE appended
    /\ netAppends' = IF r = DELETED THEN netAppends - 1 ELSE netAppends

-----------------------------------------------------------------------------
(* The menu handlers of main() *)

\* choice "1": add() initializes the file, then appends the entry
add(date, amount, category, description) ==
    /\ DataRows(file) < MaxRows
    /\ file' = add_entry(initialize_csv(file), date, amount, category, description)
    /\ report' = ADDED
    /\ op' = [name |-> "add", date |-> date, amount |-> amount,
              category |-> category, description |-> description]
    /\ NoteAppend(date, amount, category, description)
    /\ Forget

\* choice "2": update()
update(index, date, amount, category, description) ==
    LET r == update_entry(file, index, date, amount, category, description)
    IN  /\ file' = r.file
        /\ report' = r.report
        /\ op' = [name |-> "update", index |-> index, date |-> date,
                  amount |-> amount, category |-> category,
                  description |-> description]
        /\ NoteRewrite(r.report)
        /\ Forget

\* choice "3": delete()
delete(index) ==
    LET r == delete_entry(file, index)
    IN  /\ file' = r.file
        /\ report' = r.report
        /\ op' = [name |-> "delete", index |-> index]
        /\ NoteRewrite(r.report)
        /\ Forget

\* choice "4": the query, and the plot when rows came back and the user says y
view(start_date, end_date, plot) ==
    LET g == get_transactions(file, start_date, end_date)
    IN  /\ report' = g.report
        /\ result' = g.df
        /\ summary' = g.summary
        /\ series' = IF g.report \notin Faults /\ len(g.df) > 0 /\ plot
                     THEN plot_transaction(g.df) ELSE NoSeries
        /\ op' = [name |-> "view", start_date |-> start_date,
                  end_date |-> end_date, plot |-> plot]
        /\ UNCHANGED <<file, appended, netAppends>>

Init ==
    /\ file = NoFile
    /\ op = [name |-> "start"]
    /\ report = ""
    /\ result = NoFrame
    /\ summary = NoSummary
    /\ series = NoSeries
    /\ appended = [valid |-> TRUE, entries |-> <<>>]
    /\ netAppends = 0

Next ==
    \/ \E e \in MenuEntries : add(e[1], e[2], e[3], e[4])
    \/ \E i \in Indexes(DataRows(file)), e \in MenuEntries :
          update(i, e[1], e[2], e[3], e[4])
    \/ \E i \in Indexes(DataRows(file)) : delete(i)
    \/ \E s \in MenuDates, e \in MenuDates, p \in BOOLEAN : view(s, e, p)

\* the program as run from its menu, from an environment without the file
Spec == Init /\ [][Next]_vars

-----------------------------------------------------------------------------
(* The classmethods of CSV called directly, in any order *)

StoreDates == {"31-01-2024"}
StoreAmounts == {40}
StoreCategories == {"Income"}

CallInitialize ==
    /\ file' = initialize_csv(file)
    /\ report' = ""
    /\ op' = [name |-> "initialize"]
    /\ UNCHANGED <<appended, netAppends>>
    /\ Forget

CallAddEntry(date, amount, category, description) ==
    /\ Len(file.lines) < MaxLines
    /\ file' = add_entry(file, date, amount, category, description)
    /\ report' = ADDED
    /\ op' = [name |-> "add_entry", date |-> date, amount |-> amount,
              category |-> category, description |-> description]
    /\ NoteAppend(date, amount, category, description)
    /\ Forget

NextStore ==
    \/ CallInitialize
    \/ \E d \in StoreDates, a \in StoreAmounts, c \in StoreCategories,
          ds \in Descriptions : CallAddEntry(d, a, c, ds)
    \/ \E i \in Indexes(DataRows(file)), d \in StoreDates, a \in StoreAmounts,
          c \in StoreCategories, ds \in Descriptions : update(i, d, a, c, ds)
    \/ \E i \in Indexes(DataRows(file)) : delete(i)
    \/ \E s \in StoreDates, e \in StoreDates : view(s, e, FALSE)

SpecStore == Init /\ [][NextStore]_vars

-----------------------------------------------------------------------------
(* The query, the summary and the plot over any table *)

\* records of a well-formed file, as add_entry writes them
QueryRecords ==
    {<<"30-01-2024", "40.0", "Income", "rent">>,
     <<"31-01-2024", "100.0", "Income", "rent">>,
     <<"31-01-2024", "40.0", "Income", "">>,
     <<"31-01-2024", "40.0", "Expense", "rent">>,
     <<"01-02-2024", "100.0", "Expense", "rent">>,
     <<"01-02-2024", "40.0", "Transfer", "rent">>,
     <<"01-02-2024", "100.0", "Income", "">>,
     <<"02-02-2024", "40.0", "Expense", "rent">>}

Tables == UNION {[1 .. n -> QueryRecords] : n \in 0 .. MaxTable}

InitQuery ==
    /\ file \in {FileOf(<<COLUMNS>> \o t) : t \in Tables}
    /\ op = [name |-> "start"]
    /\ report = ""
    /\ result = NoFrame
    /\ summary = NoSummary
    /\ series = NoSeries
    /\ appended = NoAppends
    /\ netAppends = DataRows(file)

NextQuery == \E s \in MenuDates, e \in MenuDates, p \in BOOLEAN : view(s, e, p)

SpecQuery == InitQuery /\ [][NextQuery]_vars

-----------------------------------------------------------------------------
(* Vocabulary of the properties *)

\* the rows of the stored table, as the program loads them
Loaded(f) == read_csv(f).rows

\* the row an entry is expected to be once stored and loaded again
RowOf(date, amount, category, description) ==
    <<date, str(amount), category, description>>

\* calendar order of two date texts, by year, then month, then day
DateLeq(s, t) ==
    LET a == strptime(s)
        b == strptime(t)
    IN  \/ a.year < b.year
        \/ a.year = b.year /\ a.month < b.month
        \/ a.year = b.year /\ a.month = b.month /\ a.day <= b.day

\* the positions of rows whose date text lies in [start, end]
Within(rows, start, end) ==
    {i \in 1 .. Len(rows) : DateLeq(start, rows[i][1]) /\ DateLeq(rows[i][1], end)}

\* the k-th smallest element of a set of numbers
RECURSIVE Nth(_, _)
Nth(S, k) == IF k = 1 THEN Least(S) ELSE Nth(S \ {Least(S)}, k - 1)

\* the sum of f over a finite set
RECURSIVE SumOver(_, _)
SumOver(S, f) ==
    IF S = {} THEN 0
    ELSE LET x == CHOOSE y \in S : TRUE IN f[x] + SumOver(S \ {x}, f)

\* the total of the amounts of the rows of a category, among given positions
TotalOf(rows, positions, category) ==
    SumOver({i \in positions : rows[i][3] = category},
            [i \in 1 .. Len(rows) |-> float(rows[i][2])])

-----------------------------------------------------------------------------
(* Properties of the store, for the program run from its menu (Spec) *)

\* C1: once the file is initialized, after N entries were added one after
\* another the loaded table is exactly those N rows: the K-th entry is at
\* position K-1 with its date, amount, category and description (which may be
\* empty) as they were added, and the query over a range covering them all
\* returns them in the order they were added.
C1_AppendRoundTrip ==
    (appended.valid /\ file.exists) =>
        LET rows == Loaded(file)
            n == Len(appended.entries)
            q == get_transactions(file, "30-01-2024", "02-02-2024")
        IN  /\ Len(rows) = n
            /\ Len(q.df.rows) = n
            /\ \A k \in 1 .. n :
                  LET e == appended.entries[k]
                  IN  /\ rows[k][1] = e[1]
                      /\ float(rows[k][2]) = e[2]
                      /\ rows[k][3] = e[3]
                      /\ rows[k][4] = e[4]
                      /\ q.df.rows[k] = <<strptime(e[1]), str(e[2]), e[3], e[4]>>

\* C2: deleting a valid index i of a table of n >= 1 rows reports success and
\* leaves n-1 rows: the rows before i stay where they were and every row
\* after i moves up by one position.
C2_DeleteRenumbers ==
    [][(/\ op'.name = "delete"
        /\ file.exists
        /\ 0 <= op'.index
        /\ op'.index < Len(Loaded(file)))
       => /\ report' = DELETED
          /\ Len(Loaded(file')) = Len(Loaded(file)) - 1
          /\ \A j \in 1 .. Len(Loaded(file)) :
                /\ j < op'.index + 1 => Loaded(file')[j] = Loaded(file)[j]
                /\ j > op'.index + 1 => Loaded(file')[j - 1] = Loaded(file)[j]]_vars

\* a row was deleted from the middle of three
C2_Witness ==
    /\ op.name = "delete"
    /\ op.index = 1
    /\ report = DELETED
    /\ DataRows(file) = 2

\* C3 as stated: with an index that is negative or not below the row count,
\* update and delete change nothing and report the invalid index.
C3_InvalidIndexReported ==
    [][(/\ op'.name \in {"update", "delete"}
        /\ file.exists
        /\ (op'.index < 0 \/ op'.index >= Len(Loaded(file))))
       => /\ file' = file
          /\ report' = IF op'.name = "update" THEN INVALID_UPDATE
                       ELSE INVALID_DELETE]_vars

\* C3 as amended: with an index that is negative or not below the row count,
\* update and delete change nothing; update reports the invalid index, and so
\* does delete unless the table has no row, when it reports that there is no
\* data to delete.
C3_InvalidIndexNoMutation ==
    [][(/\ op'.name \in {"update", "delete"}
        /\ file.exists
        /\ (op'.index < 0 \/ op'.index >= Len(Loaded(file))))
       => /\ file' = file
          /\ report' = IF op'.name = "update" THEN INVALID_UPDATE
                       ELSE IF Len(Loaded(file)) = 0 THEN NO_DATA
                       ELSE INVALID_DELETE]_vars

\* delete was called with the row count as index on a table that has rows
C3_Witness ==
    /\ op.name = "delete"
    /\ report = INVALID_DELETE
    /\ DataRows(file) >= 1
    /\ op.index = DataRows(file)

\* C8: updating a valid index i reports success and leaves a table of the
\* same length in which row i holds exactly the four values given and every
\* other row is unchanged at its position.
C8_UpdateInPlace ==
    [][(/\ op'.name = "update"
        /\ file.exists
        /\ 0 <= op'.index
        /\ op'.index < Len(Loaded(file)))
       => /\ report' = UPDATED
          /\ Len(Loaded(file')) = Len(Loaded(file))
          /\ Loaded(file')[op'.index + 1] =
                RowOf(op'.date, op'.amount, op'.category, op'.description)
          /\ \A j \in 1 .. Len(Loaded(file)) :
                j # op'.index + 1 => Loaded(file')[j] = Loaded(file)[j]]_vars

-----------------------------------------------------------------------------
(* Properties of the query, the summary and the plot (SpecQuery) *)

\* the dates of the rows a query returned
ResultDates == {result.rows[i][1] : i \in 1 .. Len(result.rows)}

\* the positions of the returned rows that share the date of row k
SameDay(k) == {i \in 1 .. Len(result.rows) : result.rows[i][1] = result.rows[k][1]}

\* C6: the query returns exactly the rows whose date d satisfies
\* start_date <= d <= end_date, both bounds included, in the order of the
\* table, and leaves the file as it was.
C6_QueryInclusiveRange ==
    [][op'.name = "view"
       => LET rows == Loaded(file)
              W == Within(rows, op'.start_date, op'.end_date)
          IN  /\ file' = file
              /\ report' \notin Faults
              /\ Len(result'.rows) = Cardinality(W)
              /\ \A k \in 1 .. Cardinality(W) :
                    result'.rows[k] = [rows[Nth(W, k)] EXCEPT ![1] = strptime(@)]]_vars

\* a query for a single day over rows dated the day before, that day and the
\* day after returned the one row of that day
C6_Witness ==
    /\ op.name = "view"
    /\ op.start_date = "31-01-2024"
    /\ op.end_date = "31-01-2024"
    /\ {Loaded(file)[i][1] : i \in 1 .. Len(Loaded(file))}
          = {"30-01-2024", "31-01-2024", "01-02-2024"}
    /\ Len(result.rows) = 1

\* C7 as stated: for any rows the query returns, the empty sequence included,
\* the summary gives total_income as the sum of the Income amounts,
\* total_expense as the sum of the Expense amounts and net_saving as their
\* difference; rows of another category add to neither.
C7_SummaryOfAnyResult ==
    (op.name = "view" /\ report \notin Faults) =>
        /\ summary.computed
        /\ summary.total_income = TotalOf(result.rows, 1 .. Len(result.rows), "Income")
        /\ summary.total_expense = TotalOf(result.rows, 1 .. Len(result.rows), "Expense")
        /\ summary.net_saving = summary.total_income - summary.total_expense

\* C7 as amended: when the query returns at least one row, the summary gives
\* those three values; when it returns no row, no summary is computed and only
\* the not-found message is reported.
C7_SummaryOfFoundRows ==
    op.name = "view" =>
        IF Len(result.rows) = 0
        THEN report = NOT_FOUND /\ ~summary.computed
        ELSE /\ report = FOUND
             /\ summary.computed
             /\ summary.total_income =
                   TotalOf(result.rows, 1 .. Len(result.rows), "Income")
             /\ summary.total_expense =
                   TotalOf(result.rows, 1 .. Len(result.rows), "Expense")
             /\ summary.net_saving = summary.total_income - summary.total_expense

\* a summary was computed over an Income, an Expense and a Transfer row
C7_Witness ==
    /\ op.name = "view"
    /\ summary.computed
    /\ {result.rows[i][3] : i \in 1 .. Len(result.rows)} = Categories

\* C9 as stated: the series plotted for each of Income and Expense has
\* exactly one amount per distinct date of the returned rows, the sum of that
\* day's amounts of the category, zero when the day has none.
C9_OnePointPerDate ==
    (op.name = "view" /\ op.plot /\ Len(result.rows) > 0) =>
        /\ Len(series.dates) = Cardinality(ResultDates)
        /\ Len(series.income) = Cardinality(ResultDates)
        /\ Len(series.expense) = Cardinality(ResultDates)
        /\ \A k \in 1 .. Len(result.rows) :
              \E p \in 1 .. Len(series.dates) :
                 /\ series.dates[p] = result.rows[k][1]
                 /\ series.income[p] = TotalOf(result.rows, SameDay(k), "Income")
                 /\ series.expense[p] = TotalOf(result.rows, SameDay(k), "Expense")

\* C9 as amended: the series plotted for each of Income and Expense has one
\* amount per returned row, in the order of the rows (a date that k rows
\* share occurs k times): the sum of the amounts of the category on that
\* row's date, zero when the date has none.
C9_OnePointPerRow ==
    (op.name = "view" /\ op.plot /\ Len(result.rows) > 0) =>
        /\ Len(series.dates) = Len(result.rows)
        /\ Len(series.income) = Len(result.rows)
        /\ Len(series.expense) = Len(result.rows)
        /\ \A k \in 1 .. Len(result.rows) :
              /\ series.dates[k] = result.rows[k][1]
              /\ series.income[k] = TotalOf(result.rows, SameDay(k), "Income")
              /\ series.expense[k] = TotalOf(result.rows, SameDay(k), "Expense")

\* a plot over two Income rows of one day and an Expense row of another day
C9_Witness ==
    /\ op.name = "view"
    /\ op.plot
    /\ Len(series.dates) = 3
    /\ \E k \in 1 .. 3 : series.income[k] = 140 /\ series.expense[k] = 0
    /\ \E k \in 1 .. 3 : series.income[k] = 0 /\ series.expense[k] = 100

-----------------------------------------------------------------------------
(* Properties of the classmethods called in any order (SpecStore) *)

\* C4: when the file does not exist, add, update, delete and query each end
\* with a reported outcome and no uncaught exception: delete reports that there
\* is no data, update changes nothing, and the query returns no row and reports
\* that nothing was found.
C4_MissingFileRecoverable ==
    [][~file.exists
       => /\ report' \notin Faults
          /\ op'.name = "delete" => (report' = NO_DATA /\ file' = file)
          /\ op'.name = "update" => file' = file
          /\ op'.name = "view" => (report' = NOT_FOUND /\ Len(result'.rows) = 0)]_vars

\* C5: initialize_csv creates a file holding the header and no row when there
\* is no file, leaves an existing file as it is whatever it holds, and a second
\* call changes nothing.
C5_InitializeIdempotent ==
    [][op'.name = "initialize"
       => /\ IF file.exists THEN file' = file
             ELSE file' = FileOf(<<COLUMNS>>) /\ Len(Loaded(file')) = 0
          /\ initialize_csv(file') = file']_vars

\* initialize_csv was called on a file that holds rows
C5_Witness ==
    /\ op.name = "initialize"
    /\ DataRows(file) >= 1

\* C10: from an environment without the file, after the classmethods were
\* called in any order, whenever the file exists its first record is the header
\* and the loaded row count is the number of add_entry calls minus the number
\* of successful deletions; update and query never change the row count.
C10_HeaderAndRowCount ==
    [][/\ file'.exists
          => (file'.lines[1] = COLUMNS /\ Len(Loaded(file')) = netAppends')
       /\ op'.name \in {"update", "view"} => DataRows(file') = DataRows(file)]_vars

====
